---- MODULE Spec2Model ----
\* A model of privateer's `main` (src/src/main.rs): the interactive run that
\* collects a username and a token, lists or asks for repositories, and sends
\* one update request per repository.
\*
\* Text is modelled as a sequence of one-character strings, so that trimming,
\* lower-casing, prefix tests, splitting and formatting are computed as the
\* code computes them.  Option<T> is a sequence of length 0 (None) or 1 (Some).
\* An HTTP exchange is either a transport failure of `send()` or a response
\* that has arrived whole (status and body).
EXTENDS Integers, Sequences, FiniteSets, TLC

VARIABLES
    pc,            \* position of `main`
    outcome,       \* what `main` returned: kind "Running", "Ok", or the error
    env,           \* PAT_TOKEN as std::env::var sees it: None unset, Some(v) set
    username,      \* main.rs:73
    pat_token,     \* main.rs:79
    page_number,   \* get_repos_request, main.rs:320
    listed,        \* the lister's vector (main.rs:318), then its result (main.rs:109)
    repos_ids,     \* main.rs:110: None until the selector has returned Ok(ids)
    repositories,  \* the working set the update loop runs over (main.rs:117, 132)
    cursor,        \* how many elements `for repo in repositories` has taken
    api_url,       \* main.rs:146
    privacy,       \* main.rs:156
    lastRead,      \* what the latest prompt for a value returned: None Err, Some(s) Ok(s)
    asked,         \* times the prompt loop the run is in has shown its prompt
    net,           \* the requests sent so far, each with its answer, in order
    prompts,       \* the prompts shown so far, in order (a loop's prompt once)
    confirmations  \* "updated successfully" lines printed (main.rs:449)

vars == <<pc, outcome, env, username, pat_token, page_number, listed, repos_ids,
          repositories, cursor, api_url, privacy, lastRead, asked, net, prompts,
          confirmations>>

\* ---------------------------------------------------------------- bounds

\* How often an unbounded prompt loop may re-prompt in the model.
MaxReprompts == 2
\* The longest list of indices the selector returns in the model.
MaxSelection == 3

\* ------------------------------------------------------------------ text

None == <<>>
Some(x) == <<x>>

S_true == <<"t", "r", "u", "e">>
S_false == <<"f", "a", "l", "s", "e">>
S_y == <<"y">>
S_n == <<"n">>
S_api == <<"a", "p", "i", ".">>
S_api_repos ==
    <<"h", "t", "t", "p", "s", ":", "/", "/", "a", "p", "i", ".", "g", "i", "t",
      "h", "u", "b", ".", "c", "o", "m", "/", "r", "e", "p", "o", "s">>
S_github ==
    <<"h", "t", "t", "p", "s", ":", "/", "/", "g", "i", "t", "h", "u", "b", ".",
      "c", "o", "m", "/">>
S_token == <<"t", "o", "k", "e", "n", " ">>
S_Bearer == <<"B", "e", "a", "r", "e", "r", " ">>

\* char::is_whitespace, on the characters the model uses.
IsWhitespace(c) == c \in {" ", "\n", "\t", "\r"}

RECURSIVE TrimStart(_)
TrimStart(s) ==
    IF s = <<>> THEN <<>>
    ELSE IF IsWhitespace(Head(s)) THEN TrimStart(Tail(s)) ELSE s

RECURSIVE TrimEnd(_)
TrimEnd(s) ==
    IF s = <<>> THEN <<>>
    ELSE IF IsWhitespace(s[Len(s)]) THEN TrimEnd(SubSeq(s, 1, Len(s) - 1)) ELSE s

\* str::trim
Trim(s) == TrimEnd(TrimStart(s))

LowerChar(c) ==
    CASE c = "Y" -> "y"
      [] c = "N" -> "n"
      [] c = "T" -> "t"
      [] OTHER -> c

\* str::to_lowercase
ToLowercase(s) == [k \in DOMAIN s |-> LowerChar(s[k])]

\* str::starts_with
StartsWith(s, p) == Len(s) >= Len(p) /\ SubSeq(s, 1, Len(p)) = p

\* s.split(pat).collect::<Vec<_>>().join(""): every non-overlapping occurrence
\* of pat, found left to right, is dropped.
RECURSIVE SplitJoin(_, _)
SplitJoin(s, pat) ==
    IF s = <<>> THEN <<>>
    ELSE IF StartsWith(s, pat) THEN SplitJoin(SubSeq(s, Len(pat) + 1, Len(s)), pat)
    ELSE <<Head(s)>> \o SplitJoin(Tail(s), pat)

\* HeaderValue::from_str accepts visible ASCII, space and tab only.
IsHeaderText(s) == \A k \in DOMAIN s : s[k] \notin {"\n", "\r"}

\* prompter::prompt_user_input: Err when the line cannot be read, else the
\* line trimmed.
PromptUserInput(read) == IF read = None THEN None ELSE Some(Trim(read[1]))

\* Result::unwrap_or_else(|_| default)
UnwrapOr(res, default) == IF res = None THEN default ELSE res[1]

\* ---------------------------------------------------------------- inputs

\* The user name and the repository names of the model.
S_al == <<"a", "l">>
S_x == <<"x">>
S_apiz == <<"a", "p", "i", ".", "z">>
S_w == <<"w">>

\* What reading a line at a prompt can give: None when the read fails, <<>> at
\* end of input, else the line typed.
UsernameReads ==
    {None, Some(<<>>), Some(<<" ", "\n">>), Some(<<"a", "l", "\n">>),
     Some(<<" ", "a", "l", " ", "\n">>)}

RepositoryReads ==
    {None, Some(<<"\n">>), Some(<<"x", "\n">>), Some(<<"a", "p", "i", ".", "z", "\n">>)}

MultipleReads ==
    {None, Some(<<"y", "\n">>), Some(<<"Y", "\n">>), Some(<<"n", "\n">>),
     Some(<<"\n">>), Some(<<"y", "e", "s", "\n">>)}

PrivacyReads ==
    {None, Some(<<"t", "r", "u", "e", "\n">>), Some(<<" ", "f", "a", "l", "s", "e", "\n">>),
     Some(<<"T", "r", "u", "e", "\n">>), Some(<<"y", "\n">>), Some(<<>>)}

\* What rpassword::prompt_password can give: None when the terminal cannot be
\* read, else the password typed.
TokenReads == {None, Some(<<>>), Some(<<"p">>)}

\* PAT_TOKEN in the process environment, and in the .env file.
EnvValues == {None, Some(<<>>), Some(<<"e">>), Some(<<"e", "\n">>)}
DotenvValues == {None, Some(<<"e">>)}

\* JSON objects of a listing page: a record holds the fields the object has.
ObjX ==
    [name |-> S_x, url |-> S_api_repos \o <<"/">> \o S_al \o <<"/">> \o S_x,
     private |-> TRUE, fork |-> FALSE]
ObjApiZ ==
    [name |-> S_apiz, url |-> S_api_repos \o <<"/">> \o S_al \o <<"/">> \o S_apiz,
     private |-> FALSE]
ObjW ==
    [name |-> S_w, url |-> S_github \o S_al \o <<"/">> \o S_api \o S_w, private |-> TRUE]
ObjNoPrivate == [name |-> S_w, url |-> S_github \o S_al \o <<"/">> \o S_w]
ObjNoUrl == [name |-> S_w, private |-> TRUE]

\* Response bodies: a JSON array of objects, or any other text.
JsonArray(items) == [doc |-> "array", items |-> items]
OtherText(chars) == [doc |-> "other", chars |-> chars]

PageBodies ==
    {JsonArray(<<>>), JsonArray(<<ObjX, ObjApiZ>>), JsonArray(<<ObjW>>),
     JsonArray(<<ObjNoPrivate>>), JsonArray(<<ObjNoUrl>>), OtherText(<<"<", ">">>)}

ErrorBodies == {OtherText(<<"n", "o">>), OtherText(<<>>)}

\* What `send()` gives: a transport failure, or a response.
SendError == [kind |-> "senderr"]
Response(status, body) == [kind |-> "http", status |-> status, body |-> body]

ListResponses ==
    {SendError} \cup {Response(st, b) : st \in {304, 401}, b \in ErrorBodies}
                \cup {Response(200, b) : b \in PageBodies}

PostResponses ==
    {SendError, Response(304, OtherText(<<>>)), Response(403, OtherText(<<"n", "o">>)),
     Response(200, JsonArray(<<>>))}

\* Every list of at most MaxSelection indices into a collection of n records,
\* in any order, no index twice (an entry of the dialog is checked or not).
RECURSIVE IndexLists(_, _)
IndexLists(n, len) ==
    IF len = 0 THEN {<<>>}
    ELSE IndexLists(n, len - 1)
         \cup {Append(l, i) : l \in {m \in IndexLists(n, len - 1) : Len(m) = len - 1},
                              i \in 0 .. (n - 1)}

IsInjective(l) == \A j, k \in DOMAIN l : l[j] = l[k] => j = k

Selections(n) == {l \in IndexLists(n, MaxSelection) : IsInjective(l)}

\* ------------------------------------------------------------- the code

\* String::is_empty, the test of main.rs:74, 85 and 129.
IsEmptyMissed(s) == FALSE
IsEmpty(s) == s = <<>>

\* Vec::is_empty, the test of main.rs:112.
NoneSelectedMissed(ids) == FALSE
NoneSelected(ids) == ids = <<>>

\* StatusCode::is_success (main.rs:373, 442).
IsSuccessBelow400(status) == status < 400
IsSuccess(status) == 200 <= status /\ status <= 299

\* `page_number >= 3` ends the lister's loop (main.rs:344).
PageLimit == 3
PageLimitPassed(n) == n > PageLimit
PageLimitReached(n) == n >= PageLimit

\* github::Repo as serde deserializes one object: name and url are required,
\* private is None when absent, other fields are ignored.
IsRepoObject(o) == "name" \in DOMAIN o /\ "url" \in DOMAIN o
RepoOf(o) ==
    [name |-> o.name, url |-> o.url,
     private |-> IF "private" \in DOMAIN o THEN Some(o.private) ELSE None]

\* serde_json::from_str::<Vec<Repo>>(&text): None for Err.
ParseRepos(body) ==
    IF body.doc = "array" /\ \A k \in DOMAIN body.items : IsRepoObject(body.items[k])
    THEN Some([k \in DOMAIN body.items |-> RepoOf(body.items[k])])
    ELSE None

\* What one turn of the lister's loop does with the answer to its request
\* (main.rs:365-394).
ListerStepAborting(resp) ==
    CASE resp.kind = "senderr" -> "TransportError"
      [] resp.kind = "http" /\ ~IsSuccess(resp.status) -> "ApiError"
      [] resp.kind = "http" /\ IsSuccess(resp.status) /\ ParseRepos(resp.body) = None
           -> "MalformedResponse"
      [] resp.kind = "http" /\ IsSuccess(resp.status) /\ ParseRepos(resp.body) = Some(<<>>)
           -> "break"
      [] OTHER -> "extend"
ListerStep(resp) ==
    CASE resp.kind = "senderr" -> "break"
      [] resp.kind = "http" /\ ~IsSuccess(resp.status) -> "ApiError"
      [] resp.kind = "http" /\ IsSuccess(resp.status) /\ ParseRepos(resp.body) = None
           -> "MalformedResponse"
      [] resp.kind = "http" /\ IsSuccess(resp.status) /\ ParseRepos(resp.body) = Some(<<>>)
           -> "break"
      [] OTHER -> "extend"

\* Vec::extend (main.rs:390).
Extend(vec, page) == vec \o page

\* serde_json::Value
JsonString(s) == [t |-> "String", v |-> s]
JsonBool(b) == [t |-> "Bool", v |-> b]

\* The request of main.rs:350-363.
GetRequest(page, token) ==
    [method |-> "GET", page |-> page, per_page |-> 100,
     authorization |-> S_Bearer \o token]

\* The body of main.rs:424-428.
PostBody(repository, priv) ==
    [name |-> JsonString(repository), private |-> JsonString(priv),
     auto_init |-> JsonBool(TRUE)]

\* The request of main.rs:421-438.
PostRequest(repository, priv, url, token) ==
    [method |-> "POST", url |-> url, authorization |-> S_token \o token,
     body |-> PostBody(repository, priv)]

\* One entry of `net`.
Exchange(req, resp) == [req |-> req, resp |-> resp]

\* format!("https://api.github.com/repos/{username}/{repo}") (main.rs:146).
ApiUrl(user, repo) == S_api_repos \o <<"/">> \o user \o <<"/">> \o repo

\* The record of the single-repository path (main.rs:132-140).
SingleRepo(user, repo) ==
    [name |-> repo, url |-> S_github \o user \o <<"/">> \o repo, private |-> None]

\* The closure of main.rs:119-125.
RewriteUrl(rep) ==
    IF StartsWith(rep.url, S_api_repos)
    THEN [rep EXCEPT !.url = SplitJoin(rep.url, S_api)]
    ELSE rep

\* main.rs:117-126: one record per index, in the order of the indices.
SelectedAscending(coll, ids) ==
    LET at == [k \in DOMAIN coll |-> k - 1]
        kept == SelectSeq(at, LAMBDA i : \E k \in DOMAIN ids : ids[k] = i)
    IN  [k \in DOMAIN kept |-> RewriteUrl(coll[kept[k] + 1])]
SelectedRepositories(coll, ids) == [k \in DOMAIN ids |-> RewriteUrl(coll[ids[k] + 1])]

\* The privacy loop's test (main.rs:162).
IsPrivacyAnswerAnyCase(input) == ToLowercase(input) = S_true \/ ToLowercase(input) = S_false
IsPrivacyAnswer(input) == input = S_true \/ input = S_false

\* The token of main.rs:79-84 when no prompt is needed: Some(v) when
\* std::env::var gives a non-empty value, None when the prompt is to be shown.
TokenFromEnvUnchecked(e) == e
TokenFromEnv(e) == IF e # None /\ ~IsEmpty(e[1]) THEN e ELSE None

\* One entry of `prompts`.
Prompt(kind) == [prompt |-> kind, repo |-> <<>>]
PrivacyPrompt(repo) == [prompt |-> "privacy", repo |-> repo]

\* The process status of `fn main() -> Result<()>` (main.rs:68, 173): 0 for
\* Ok(()), 1 for Err, 101 for a panic.
ExitStatus(kind) ==
    CASE kind = "Ok" -> 0
      [] kind = "Panic" -> 101
      [] OTHER -> 1

Running == [kind |-> "Running", detail |-> None]
Returned(kind, detail) == [kind |-> kind, detail |-> detail]

Finish(kind, detail) ==
    /\ pc' = "done"
    /\ outcome' = Returned(kind, detail)

Init ==
    /\ pc = "dotenv"
    /\ outcome = Running
    /\ env \in EnvValues
    /\ username = <<>>
    /\ pat_token = <<>>
    /\ page_number = 1
    /\ listed = <<>>
    /\ repos_ids = None
    /\ repositories = <<>>
    /\ cursor = 0
    /\ api_url = <<>>
    /\ privacy = <<>>
    /\ lastRead = None
    /\ asked = 0
    /\ net = <<>>
    /\ prompts = <<>>
    /\ confirmations = 0

\* dotenv::dotenv().ok() (main.rs:70): a variable of the .env file is set
\* unless the environment has it already.
LoadDotenv ==
    /\ pc = "dotenv"
    /\ \E file \in DotenvValues : env' = IF env = None THEN file ELSE env
    /\ pc' = "username"
    /\ UNCHANGED <<outcome, username, pat_token, page_number, listed, repos_ids,
                   repositories, cursor, api_url, privacy, lastRead, asked, net,
                   prompts, confirmations>>

\* main.rs:73-76.
PromptUsername ==
    /\ pc = "username"
    /\ prompts' = Append(prompts, Prompt("username"))
    /\ \E read \in UsernameReads :
        LET res == PromptUserInput(read) IN
        /\ lastRead' = res
        /\ \/ /\ res = None
              /\ Finish("PromptError", None)
              /\ UNCHANGED username
           \/ /\ res # None /\ IsEmpty(res[1])
              /\ username' = res[1]
              /\ Finish("MissingInput", None)
           \/ /\ res # None /\ ~IsEmpty(res[1])
              /\ username' = res[1]
              /\ pc' = "token"
              /\ UNCHANGED outcome
    /\ UNCHANGED <<env, pat_token, page_number, listed, repos_ids, repositories,
                   cursor, api_url, privacy, asked, net, confirmations>>

\* main.rs:79-89.
ResolveToken ==
    /\ pc = "token"
    /\ \E answer \in (IF TokenFromEnv(env) # None THEN {TokenFromEnv(env)} ELSE TokenReads) :
        /\ prompts' = IF TokenFromEnv(env) # None THEN prompts
                      ELSE Append(prompts, Prompt("token"))
        /\ lastRead' = IF TokenFromEnv(env) # None THEN lastRead ELSE answer
        /\ \/ /\ answer = None
              /\ Finish("Panic", None)
              /\ UNCHANGED pat_token
           \/ /\ answer # None /\ IsEmpty(answer[1])
              /\ pat_token' = answer[1]
              /\ Finish("MissingInput", None)
           \/ /\ answer # None /\ ~IsEmpty(answer[1])
              /\ pat_token' = answer[1]
              /\ pc' = "multiple"
              /\ UNCHANGED outcome
    /\ UNCHANGED <<env, username, page_number, listed, repos_ids, repositories,
                   cursor, api_url, privacy, asked, net, confirmations>>

\* One turn of the loop of main.rs:95-105, and the branch of main.rs:108.
PromptMultiple ==
    /\ pc = "multiple"
    /\ prompts' = IF asked = 0 THEN Append(prompts, Prompt("multiple")) ELSE prompts
    /\ \E read \in MultipleReads :
        LET res == PromptUserInput(read)
            input == ToLowercase(UnwrapOr(res, S_n))
        IN  \/ /\ input = S_y
               /\ pc' = "fetch"
            \/ /\ input = S_n
               /\ pc' = "single"
            \/ /\ input # S_y /\ input # S_n
               /\ asked < MaxReprompts
               /\ pc' = pc
    /\ asked' = asked + 1
    /\ UNCHANGED <<outcome, env, username, pat_token, page_number, listed, repos_ids,
                   repositories, cursor, api_url, privacy, lastRead, net,
                   confirmations>>

\* One turn of the loop of github::get_repos_request (main.rs:341-395); a turn
\* that leaves the loop also returns the vector (main.rs:397-402).
GetReposRequest ==
    /\ pc = "fetch"
    /\ \/ /\ PageLimitReached(page_number)
          /\ pc' = "select"
          /\ UNCHANGED <<outcome, page_number, listed, net>>
       \/ /\ ~PageLimitReached(page_number)
          /\ ~IsHeaderText(S_Bearer \o pat_token)
          /\ Finish("InvalidHeader", None)
          /\ UNCHANGED <<page_number, listed, net>>
       \/ /\ ~PageLimitReached(page_number)
          /\ IsHeaderText(S_Bearer \o pat_token)
          /\ \E resp \in ListResponses :
              /\ net' = Append(net, Exchange(GetRequest(page_number, pat_token), resp))
              /\ \/ /\ ListerStep(resp) = "break"
                    /\ pc' = "select"
                    /\ UNCHANGED <<outcome, page_number, listed>>
                 \/ /\ ListerStep(resp) = "ApiError"
                    /\ Finish("ApiError", Some(resp.body))
                    /\ UNCHANGED <<page_number, listed>>
                 \/ /\ ListerStep(resp) \in {"MalformedResponse", "TransportError"}
                    /\ Finish(ListerStep(resp), None)
                    /\ UNCHANGED <<page_number, listed>>
                 \/ /\ ListerStep(resp) = "extend"
                    /\ listed' = Extend(listed, ParseRepos(resp.body)[1])
                    /\ page_number' = page_number + 1
                    /\ UNCHANGED <<pc, outcome>>
    /\ UNCHANGED <<env, username, pat_token, repos_ids, repositories, cursor,
                   api_url, privacy, lastRead, asked, prompts, confirmations>>

\* prompt_dialoguer::run_dialoguer and what main does with its result
\* (main.rs:110-126, 208-229).  The selector's answer is a list of indices
\* into the collection, or Err.
SelectRepositories ==
    /\ pc = "select"
    /\ \/ /\ \E k \in DOMAIN listed : listed[k].private = None
          /\ Finish("Panic", None)
          /\ UNCHANGED <<repos_ids, repositories, prompts>>
       \/ /\ \A k \in DOMAIN listed : listed[k].private # None
          /\ prompts' = Append(prompts, Prompt("select"))
          /\ \/ /\ Finish("PromptError", None)
                /\ UNCHANGED <<repos_ids, repositories>>
             \/ \E ids \in Selections(Len(listed)) :
                 /\ repos_ids' = Some(ids)
                 /\ \/ /\ NoneSelected(ids)
                       /\ Finish("NoSelection", None)
                       /\ UNCHANGED repositories
                    \/ /\ ~NoneSelected(ids)
                       /\ repositories' = SelectedRepositories(listed, ids)
                       /\ pc' = "next"
                       /\ UNCHANGED outcome
    /\ UNCHANGED <<env, username, pat_token, page_number, listed, cursor, api_url,
                   privacy, lastRead, asked, net, confirmations>>

\* main.rs:128-140.
PromptRepository ==
    /\ pc = "single"
    /\ prompts' = Append(prompts, Prompt("repository"))
    /\ \E read \in RepositoryReads :
        LET res == PromptUserInput(read) IN
        /\ lastRead' = res
        /\ \/ /\ res = None
              /\ Finish("PromptError", None)
              /\ UNCHANGED repositories
           \/ /\ res # None /\ IsEmpty(res[1])
              /\ Finish("MissingInput", None)
              /\ UNCHANGED repositories
           \/ /\ res # None /\ ~IsEmpty(res[1])
              /\ repositories' = <<SingleRepo(username, res[1])>>
              /\ pc' = "next"
              /\ UNCHANGED outcome
    /\ UNCHANGED <<env, username, pat_token, page_number, listed, repos_ids, cursor,
                   api_url, privacy, asked, net, confirmations>>

\* The head of `for repo in repositories` (main.rs:144-153), and main.rs:173
\* when the vector is used up.
NextRepo ==
    /\ pc = "next"
    /\ \/ /\ cursor = Len(repositories)
          /\ Finish("Ok", None)
          /\ UNCHANGED <<cursor, api_url, asked>>
       \/ /\ cursor < Len(repositories)
          /\ cursor' = cursor + 1
          /\ api_url' = ApiUrl(username, repositories[cursor + 1].name)
          /\ asked' = 0
          /\ pc' = "privacy"
          /\ UNCHANGED outcome
    /\ UNCHANGED <<env, username, pat_token, page_number, listed, repos_ids,
                   repositories, privacy, lastRead, net, prompts, confirmations>>

\* One turn of the loop of main.rs:156-166.
PromptPrivacy ==
    /\ pc = "privacy"
    /\ prompts' = IF asked = 0
                  THEN Append(prompts, PrivacyPrompt(repositories[cursor].name))
                  ELSE prompts
    /\ \E read \in PrivacyReads :
        LET res == PromptUserInput(read)
            input == UnwrapOr(res, S_false)
        IN  /\ lastRead' = res
            /\ \/ /\ IsPrivacyAnswer(input)
                  /\ privacy' = input
                  /\ pc' = "post"
               \/ /\ ~IsPrivacyAnswer(input)
                  /\ asked < MaxReprompts
                  /\ UNCHANGED <<pc, privacy>>
    /\ asked' = asked + 1
    /\ UNCHANGED <<outcome, env, username, pat_token, page_number, listed, repos_ids,
                   repositories, cursor, api_url, net, confirmations>>

\* github::post_request and the `?` of main.rs:170 (main.rs:415-452).
PostUpdate ==
    /\ pc = "post"
    /\ \/ /\ ~IsHeaderText(S_token \o pat_token)
          /\ Finish("InvalidHeader", None)
          /\ UNCHANGED <<net, confirmations>>
       \/ /\ IsHeaderText(S_token \o pat_token)
          /\ \E resp \in PostResponses :
              /\ net' = Append(net, Exchange(PostRequest(repositories[cursor].name,
                                                         privacy, api_url, pat_token),
                                             resp))
              /\ \/ /\ resp.kind = "senderr"
                    /\ Finish("TransportError", None)
                    /\ UNCHANGED confirmations
                 \/ /\ resp.kind = "http" /\ ~IsSuccess(resp.status)
                    /\ Finish("ApiError", Some(resp.body))
                    /\ UNCHANGED confirmations
                 \/ /\ resp.kind = "http" /\ IsSuccess(resp.status)
                    /\ confirmations' = confirmations + 1
                    /\ pc' = "next"
                    /\ UNCHANGED outcome
    /\ UNCHANGED <<env, username, pat_token, page_number, listed, repos_ids,
                   repositories, cursor, api_url, privacy, lastRead, asked, prompts>>

Next ==
    \/ LoadDotenv
    \/ PromptUsername
    \/ ResolveToken
    \/ PromptMultiple
    \/ GetReposRequest
    \/ SelectRepositories
    \/ PromptRepository
    \/ NextRepo
    \/ PromptPrivacy
    \/ PostUpdate

Spec == Init /\ [][Next]_vars

\* ---------------------------------------------------- what a run shows

Posts == SelectSeq(net, LAMBDA e : e.req.method = "POST")
Gets == SelectSeq(net, LAMBDA e : e.req.method = "GET")
PrivacyPrompts == SelectSeq(prompts, LAMBDA p : p.prompt = "privacy")
PromptCount(kind) == Len(SelectSeq(prompts, LAMBDA p : p.prompt = kind))
LastPromptIs(kinds) == prompts # <<>> /\ prompts[Len(prompts)].prompt \in kinds
Refused(resp) == resp.kind = "http" /\ (resp.status < 200 \/ resp.status > 299)
Accepted(resp) == resp.kind = "http" /\ resp.status >= 200 /\ resp.status <= 299

\* The records of the pages the listing has answered with, in request order.
RECURSIVE PagesOf(_)
PagesOf(gets) ==
    IF gets = <<>> THEN <<>>
    ELSE LET resp == gets[Len(gets)].resp
             before == PagesOf(SubSeq(gets, 1, Len(gets) - 1))
         IN  IF Accepted(resp) /\ resp.body.doc = "array"
                /\ \A k \in DOMAIN resp.body.items :
                     {"name", "url"} \subseteq DOMAIN resp.body.items[k]
             THEN before \o [k \in DOMAIN resp.body.items |->
                               [name |-> resp.body.items[k].name,
                                url |-> resp.body.items[k].url,
                                private |-> IF "private" \in DOMAIN resp.body.items[k]
                                            THEN <<resp.body.items[k].private>>
                                            ELSE <<>>]]
             ELSE before

\* ---------------------------------------------------------------- claims

\* C1: whenever the username prompt, the token prompt or the repository
\* prompt has returned the empty string, the run has ended with MissingInput
\* and has sent no request; a run that ended with MissingInput has sent none;
\* and a run that has ended takes no further step.
C1_EmptyInputEndsBeforeNetwork ==
    /\ (LastPromptIs({"username", "token", "repository"}) /\ lastRead = Some(<<>>))
         => (pc = "done" /\ outcome.kind = "MissingInput" /\ net = <<>>)
    /\ outcome.kind = "MissingInput" => (pc = "done" /\ net = <<>>)
    /\ pc = "done" => ~ENABLED Next

\* An empty repository name on the single-repository path, after a username
\* and a token were given.
C1_Witness ==
    /\ LastPromptIs({"repository"})
    /\ lastRead = Some(<<>>)
    /\ username = S_al
    /\ outcome.kind = "MissingInput"

\* C2: on the single-repository path at most one POST is sent, exactly one
\* once the run has got an answer to it, and it goes to
\* https://api.github.com/repos/U/R with Authorization "token T" and a body of
\* name = R, private = the boolean the answer stands for, auto_init = true.
C2_SinglePostBooleanBody ==
    PromptCount("repository") = 1 =>
        /\ Len(Posts) <= 1
        /\ outcome.kind \in {"Ok", "ApiError", "TransportError"} => Len(Posts) = 1
        /\ \A k \in DOMAIN Posts :
             LET r == Posts[k].req IN
             /\ r.url = ApiUrl(username, repositories[1].name)
             /\ r.authorization = S_token \o pat_token
             /\ r.body.name = JsonString(repositories[1].name)
             /\ r.body.auto_init = JsonBool(TRUE)
             /\ r.body.private.t = "Bool"
             /\ r.body.private.v = (privacy = S_true)

C8_EmptySelectionAborts ==
    /\ repos_ids = Some(<<>>) =>
         /\ pc = "done"
         /\ outcome.kind = "NoSelection"
         /\ Posts = <<>>
         /\ PromptCount("privacy") = 0
    /\ outcome.kind = "Ok" => Len(Posts) >= 1

\* Nothing was selected from a collection that had records.
C8_Witness ==
    /\ repos_ids = Some(<<>>)
    /\ Len(listed) = 3
    /\ outcome.kind = "NoSelection"

\* C9: with indices ids returned by the selector, the k-th privacy prompt and
\* the k-th POST are for collection[ids[k]], a POST follows its prompt, and a
\* run that ends with success has sent one POST per index.
C9_SelectionOrderKept ==
    repos_ids # None =>
        LET ids == repos_ids[1] IN
        /\ Len(PrivacyPrompts) <= Len(ids)
        /\ Len(Posts) <= Len(PrivacyPrompts)
        /\ Len(PrivacyPrompts) <= Len(Posts) + 1
        /\ \A k \in DOMAIN PrivacyPrompts :
             PrivacyPrompts[k].repo = listed[ids[k] + 1].name
        /\ \A k \in DOMAIN Posts :
             /\ Posts[k].req.url = ApiUrl(username, listed[ids[k] + 1].name)
             /\ Posts[k].req.body.name = JsonString(listed[ids[k] + 1].name)
        /\ outcome.kind = "Ok" => Len(Posts) = Len(ids)

\* Indices [2, 0] into a collection of three, both updated.
C9_Witness ==
    /\ repos_ids = Some(<<2, 0>>)
    /\ Len(listed) = 3
    /\ Len(Posts) = 2
    /\ outcome.kind = "Ok"

C11_OnlyHostLabelRemoved ==
    (repos_ids # None /\ repos_ids[1] # <<>>) =>
        LET ids == repos_ids[1] IN
        /\ Len(repositories) = Len(ids)
        /\ \A k \in DOMAIN repositories :
             LET stored == listed[ids[k] + 1].url IN
             /\ repositories[k].name = listed[ids[k] + 1].name
             /\ repositories[k].url =
                  IF Len(stored) >= 28 /\ SubSeq(stored, 1, 28) = S_api_repos
                  THEN SubSeq(stored, 1, 8) \o SubSeq(stored, 13, Len(stored))
                  ELSE stored

\* C12: a run that has ended with status 0 has sent exactly one POST per
\* repository of the working set, each to that repository's endpoint and each
\* answered with success, and printed one confirmation per repository; and a
\* run in which a required answer was empty, nothing was selected, a request
\* was refused, or a POST failed in transport has ended with a status other
\* than 0.  (A listing request that fails in transport ends the listing, not
\* the run.)
C12_ExitStatus ==
    /\ (pc = "done" /\ ExitStatus(outcome.kind) = 0) =>
         /\ Len(Posts) = Len(repositories)
         /\ confirmations = Len(repositories)
         /\ cursor = Len(repositories)
         /\ \A k \in DOMAIN Posts :
              /\ Accepted(Posts[k].resp)
              /\ Posts[k].req.url = ApiUrl(username, repositories[k].name)
    /\ (\/ LastPromptIs({"username", "token", "repository"}) /\ lastRead = Some(<<>>)
        \/ repos_ids = Some(<<>>)
        \/ \E k \in DOMAIN net : Refused(net[k].resp)
        \/ \E k \in DOMAIN Posts : Posts[k].resp.kind = "senderr")
         => (pc = "done" /\ ExitStatus(outcome.kind) # 0)
    /\ outcome.kind \in {"MissingInput", "NoSelection", "ApiError", "TransportError",
                         "MalformedResponse", "PromptError", "InvalidHeader"}
         => (pc = "done" /\ ExitStatus(outcome.kind) = 1)

\* Three repositories were selected and all three updated.
C12_Witness ==
    /\ pc = "done"
    /\ ExitStatus(outcome.kind) = 0
    /\ Len(repositories) = 3
    /\ confirmations = 3

====
